---- MODULE Spec2Model ----
(***************************************************************************)
(* Model of crates/assistant/src/prompts.rs: the outline reducer           *)
(* `summarize` and the prompt assembler `generate_content_prompt` with its *)
(* budgeted snippet loop.                                                  *)
(*                                                                         *)
(* Text is modelled by position: the document is the byte offsets          *)
(* 0..len-1, and a piece of output text is the sequence of the offsets it  *)
(* was copied from, with the three literal strings the code pushes         *)
(* ("<|START|", ">", "|END|>") as distinct negative items.  Two outlines   *)
(* that are equal as item sequences are equal as text for every document.  *)
(***************************************************************************)
EXTENDS Integers, Sequences, FiniteSets, TLC

\* ---- bounds of the model ----
MaxLen == 4        \* longest document, in bytes
MaxMatches == 2    \* most collapse candidates the span query yields
MaxFragments == 3  \* most ranked fragments handed to generate_content_prompt
UsizeBits == 16    \* width the model gives usize (every value drawn is below 2^15)

VARIABLES
    \* summarize
    len,                \* buffer.len()
    selected_range,     \* selected_range.to_offset(buffer)
    candidates,         \* the Vec `matches` as collected, before the sort
    matches,            \* the peekable iterator over the sorted Vec
    pc,                 \* position in summarize: "sort", "scan", "done"
    summary,            \* the String being built
    offset,
    flushed_selection,
    slices,             \* the verbatim document slices taken so far, in order
    \* generate_content_prompt
    language_name,      \* TRUE for Some(language_name), FALSE for None
    kind,               \* CodegenKind: "Generate" or "Transform"
    search_results,     \* per fragment, the tokens of its rendered snippet block
    count_result,       \* num_tokens_from_messages(model, ..): [ok, count]
    max_token_count,    \* get_context_size(model)
    encoding_ok,        \* whether get_bpe_from_model(model) is Ok
    gpc,                \* position in generate_content_prompt
    prompts,            \* the Vec of prompt parts
    snippet_position,
    remaining_token_count,
    template,           \* TRUE while `template` is the non-empty header text
    next_result,        \* index of the next element of search_results
    initial_remaining   \* remaining_token_count as first computed (history)

sumVars == <<len, selected_range, candidates, matches, pc, summary, offset,
             flushed_selection, slices>>

genVars == <<language_name, kind, search_results, count_result, max_token_count,
             encoding_ok, gpc, prompts, snippet_position, remaining_token_count,
             template, next_result, initial_remaining>>

vars == <<sumVars, genVars>>

\* ---- the literal strings pushed into the summary ----
START_OPEN == -1    \* "<|START|"
CURSOR_CLOSE == -2  \* ">"
END_MARK == -3      \* "|END|>"

Range(s, e) == [start |-> s, end |-> e]

\* Well-formed in-bounds ranges of a document of n bytes.
Ranges(n) == {Range(s, e) : s \in 0..n, e \in 0..n} \ {r \in [start : 0..n, end : 0..n] : r.start > r.end}

\* buffer.text_for_range(r): the bytes r.start..r.end, by position.
TextForRange(r) ==
    IF r.start < r.end THEN [i \in 1..(r.end - r.start) |-> r.start + i - 1] ELSE <<>>

\* The keep captures a match on `collapse` can carry: none, or the first
\* byte, or the first and the last byte (the "{" and "}" of a block).
KeepChoices(c) ==
    {<<>>}
    \cup (IF c.end - c.start >= 1 THEN {<<Range(c.start, c.start + 1)>>} ELSE {})
    \cup (IF c.end - c.start >= 2
          THEN {<<Range(c.start, c.start + 1), Range(c.end - 1, c.end)>>} ELSE {})

\* struct Match { collapse, keep }
Matches(n) == UNION {{[collapse |-> c, keep |-> k] : k \in KeepChoices(c)} : c \in Ranges(n)}

\* A fixed enumeration order of matches, used only to list each collection once.
Rank(m) == ((m.collapse.start * (MaxLen + 1)) + m.collapse.end) * 3 + Len(m.keep)

Collections(n) ==
    UNION {{q \in [1..k -> Matches(n)] : \A i \in 1..(k - 1) : Rank(q[i]) <= Rank(q[i + 1])}
           : k \in 0..MaxMatches}

\* Order of the sort key (mat.collapse.start, Reverse(mat.collapse.end)).
KeyLE(a, b) ==
    \/ a.collapse.start < b.collapse.start
    \/ a.collapse.start = b.collapse.start /\ a.collapse.end >= b.collapse.end

\* matches.sort_unstable_by_key(..): every arrangement of the Vec that is in
\* key order; the order of matches with equal keys is unspecified.
SortUnstable(ms) ==
    LET n == Len(ms)
        perms == {p \in [1..n -> 1..n] : \A i, j \in 1..n : i # j => p[i] # p[j]}
    IN  {[i \in 1..n |-> ms[p[i]]] : p \in
            {p \in perms : \A i \in 1..(n - 1) : KeyLE(ms[p[i]], ms[p[i + 1]])}}

\* The inner loop left out: no surrounded match is dropped.
SkipNone(mat, rest) == rest

\* The inner `while let Some(next_mat) = matches.peek()` loop: drop the
\* leading matches that `mat` surrounds.
RECURSIVE SkipSurrounded(_, _)
SkipSurrounded(mat, rest) ==
    IF rest # <<>>
       /\ mat.collapse.start <= Head(rest).collapse.start
       /\ mat.collapse.end >= Head(rest).collapse.end
    THEN SkipSurrounded(mat, Tail(rest))
    ELSE rest

RECURSIVE Concat(_)
Concat(ss) == IF ss = <<>> THEN <<>> ELSE Head(ss) \o Concat(Tail(ss))

\* The text pushed when the selection is flushed (both copies of the block).
SelectionText(sel) ==
    <<START_OPEN>> \o (IF sel.end = sel.start
                       THEN <<CURSOR_CLOSE>>
                       ELSE TextForRange(sel) \o <<END_MARK>>)

\* offset = cmp::max(offset, mat.collapse.end), with the max forgotten.
SkipOffsetNoMax(off, mat) == mat.collapse.end

\* offset = cmp::max(offset, mat.collapse.end)
SkipOffset(off, mat) == IF off >= mat.collapse.end THEN off ELSE mat.collapse.end

\* State of the scan as a record.
ScanState(ms, sm, off, fl, sl) ==
    [matches |-> ms, summary |-> sm, offset |-> off, flushed_selection |-> fl, slices |-> sl]

\* One iteration of `while let Some(mat) = matches.next()`.
ScanStep(st, sel) ==
    LET mat == Head(st.matches)
        rest == SkipSurrounded(mat, Tail(st.matches))
        inSel == st.offset <= sel.start /\ sel.start <= mat.collapse.end
        flush == inSel /\ ~st.flushed_selection
        \* state after the optional flush
        sm1 == IF flush
               THEN st.summary \o TextForRange(Range(st.offset, sel.start)) \o SelectionText(sel)
               ELSE st.summary
        sl1 == IF flush
               THEN st.slices \o <<Range(st.offset, sel.start)>>
                    \o (IF sel.end = sel.start THEN <<>> ELSE <<sel>>)
               ELSE st.slices
        off1 == IF flush THEN sel.end ELSE st.offset
        fl1 == st.flushed_selection \/ flush
    IN  IF st.offset > mat.collapse.start
        THEN \* Skip collapsed nodes that have already been summarized.
             ScanState(rest, st.summary, SkipOffset(st.offset, mat),
                       st.flushed_selection, st.slices)
        ELSE IF inSel /\ sel.end >= mat.collapse.start
        THEN \* the selection intersects the collapsed node: not collapsed
             ScanState(rest, sm1, off1, fl1, sl1)
        ELSE ScanState(rest,
                       sm1 \o TextForRange(Range(off1, mat.collapse.start))
                           \o Concat([i \in 1..Len(mat.keep) |-> TextForRange(mat.keep[i])]),
                       mat.collapse.end, fl1,
                       sl1 \o <<Range(off1, mat.collapse.start)>>)

\* The code after the loop: flush the selection if not done, then the tail.
ScanFinish(st, sel, n) ==
    LET flush == ~st.flushed_selection /\ st.offset <= sel.start
        sm1 == IF flush
               THEN st.summary \o TextForRange(Range(st.offset, sel.start)) \o SelectionText(sel)
               ELSE st.summary
        sl1 == IF flush
               THEN st.slices \o <<Range(st.offset, sel.start)>>
                    \o (IF sel.end = sel.start THEN <<>> ELSE <<sel>>)
               ELSE st.slices
        off1 == IF flush THEN sel.end ELSE st.offset
    IN  ScanState(<<>>, sm1 \o TextForRange(Range(off1, n)), off1,
                  st.flushed_selection \/ flush, sl1 \o <<Range(off1, n)>>)

\* summarize on an already sorted Vec, as a function of its inputs.
RECURSIVE ScanAll(_, _, _)
ScanAll(st, sel, n) ==
    IF st.matches = <<>> THEN ScanFinish(st, sel, n) ELSE ScanAll(ScanStep(st, sel), sel, n)

SummarizeSorted(sorted, sel, n) == ScanAll(ScanState(sorted, <<>>, 0, FALSE, <<>>), sel, n).summary

\* ---- the state machine of summarize ----
Cur == ScanState(matches, summary, offset, flushed_selection, slices)

Install(st) ==
    /\ matches' = st.matches
    /\ summary' = st.summary
    /\ offset' = st.offset
    /\ flushed_selection' = st.flushed_selection
    /\ slices' = st.slices

\* generate_content_prompt not running.
GenIdle ==
    /\ language_name = FALSE
    /\ kind = "Generate"
    /\ search_results = <<>>
    /\ count_result = [ok |-> FALSE, count |-> 0]
    /\ max_token_count = 0
    /\ encoding_ok = FALSE
    /\ gpc = "idle"
    /\ prompts = <<>>
    /\ snippet_position = 0
    /\ remaining_token_count = 0
    /\ template = TRUE
    /\ next_result = 1
    /\ initial_remaining = 0

Init ==
    /\ GenIdle
    /\ len \in 0..MaxLen
    /\ selected_range \in Ranges(len)
    /\ candidates \in Collections(len)
    /\ matches = candidates
    /\ pc = "sort"
    /\ summary = <<>>
    /\ offset = 0
    /\ flushed_selection = FALSE
    /\ slices = <<>>

Sort ==
    /\ pc = "sort"
    /\ matches' \in SortUnstable(candidates)
    /\ pc' = "scan"
    /\ UNCHANGED <<len, selected_range, candidates, summary, offset, flushed_selection, slices>>
    /\ UNCHANGED genVars

Scan ==
    /\ pc = "scan"
    /\ matches # <<>>
    /\ Install(ScanStep(Cur, selected_range))
    /\ UNCHANGED <<len, selected_range, candidates, pc>>
    /\ UNCHANGED genVars

Finish ==
    /\ pc = "scan"
    /\ matches = <<>>
    /\ Install(ScanFinish(Cur, selected_range, len))
    /\ pc' = "done"
    /\ UNCHANGED <<len, selected_range, candidates>>
    /\ UNCHANGED genVars

Next == Sort \/ Scan \/ Finish

Spec == Init /\ [][Next]_vars

\* ==== generate_content_prompt ====
MAXIMUM_SNIPPET_TOKEN_COUNT == 500
RESERVED_TOKENS_FOR_GENERATION == 1000
\* Tokens of the header "You are working inside a large repository, here are
\* a few code snippets that may be useful", which the first accepted snippet
\* carries.
TEMPLATE_TOKENS == 18

UsizeModulus == 2 ^ UsizeBits

\* Inputs the model draws.
FragmentTokens == {82, 250, 282, 500}
ContextSizes == {4096, 8192}
CurrentCounts == {2496, 2696, 3500, 5000}

Part(name) == [part |-> name, frag |-> 0, header |-> FALSE]
Snippet(i, h) == [part |-> "snippet", frag |-> i, header |-> h]

\* The parts pushed before the budget is computed.
AssembledParts(lang, k) ==
    <<Part("preamble"), Part("file_header"), Part("content")>>
    \o (IF k = "Generate"
        THEN <<Part("cursor_note"), Part("cursor_assume"), Part("insert_note"), Part("generate")>>
        ELSE <<Part("selection_note"), Part("modify"), Part("reply_only")>>)
    \o (IF lang THEN <<Part("valid_language")>> ELSE <<>>)
    \o <<Part("no_remarks"), Part("no_other_text"), Part("no_markdown")>>

\* let mut snippet_position = prompts.len() - 1, taken when only the
\* preamble has been pushed.
InitialSnippetPosition == Len(<<Part("preamble")>>) - 1

\* Vec::insert(index, element), index counted from 0.
VecInsert(v, index, x) == SubSeq(v, 1, index) \o <<x>> \o SubSeq(v, index + 1, Len(v))

\* max_token_count - current_token_count in usize, when it does not overflow
\* or when the build wraps.
IntermediateTokenCount(max, current) == (max - current) % UsizeModulus

\* The if/else on intermediate_token_count.
RemainingAfterReserve(intermediate) ==
    IF intermediate < RESERVED_TOKENS_FOR_GENERATION
    THEN 0
    ELSE intermediate - RESERVED_TOKENS_FOR_GENERATION

\* The else branch taking the model's whole context as the budget.
RemainingOnCountFailureWhole == max_token_count

\* The else branch: tiktoken failed to count.
RemainingOnCountFailure == 0

\* encoding.encode_with_special_tokens(snippet_prompt).len()
TokenCount(body, withTemplate) == body + (IF withTemplate THEN TEMPLATE_TOKENS ELSE 0)

\* The snippet under examination and its cost.
CurrentTokenCount == TokenCount(search_results[next_result], template)

\* if token_count <= remaining_token_count
FitsBudget(token_count, remaining) == token_count <= remaining

\* if token_count < MAXIMUM_SNIPPET_TOKEN_COUNT
UnderSnippetCap(token_count) == token_count < MAXIMUM_SNIPPET_TOKEN_COUNT

\* The decrement left out.
DecrementNone(remaining, token_count) == remaining

\* remaining_token_count -= token_count
Decrement(remaining, token_count) == remaining - token_count

SumIdle ==
    /\ len = 0
    /\ selected_range = Range(0, 0)
    /\ candidates = <<>>
    /\ matches = <<>>
    /\ pc = "idle"
    /\ summary = <<>>
    /\ offset = 0
    /\ flushed_selection = FALSE
    /\ slices = <<>>

InitPrompt ==
    /\ SumIdle
    /\ language_name \in BOOLEAN
    /\ kind \in {"Generate", "Transform"}
    /\ search_results \in UNION {[1..n -> FragmentTokens] : n \in 0..MaxFragments}
    /\ \/ /\ count_result \in {[ok |-> TRUE, count |-> c] : c \in CurrentCounts}
          /\ max_token_count \in ContextSizes
          /\ encoding_ok = TRUE
       \/ /\ count_result = [ok |-> FALSE, count |-> 0]
          /\ max_token_count = 4096
          /\ encoding_ok \in BOOLEAN
    /\ gpc = "assemble"
    /\ prompts = <<>>
    /\ snippet_position = 0
    /\ remaining_token_count = 0
    /\ template = TRUE
    /\ next_result = 1
    /\ initial_remaining = 0

\* Lines 182-253: push the preamble, fix snippet_position, push the rest.
Assemble ==
    /\ gpc = "assemble"
    /\ prompts' = AssembledParts(language_name, kind)
    /\ snippet_position' = InitialSnippetPosition
    /\ gpc' = "count"
    /\ UNCHANGED <<language_name, kind, search_results, count_result, max_token_count,
                   encoding_ok, remaining_token_count, template, next_result,
                   initial_remaining>>
    /\ UNCHANGED sumVars

SetBudget(b) ==
    /\ remaining_token_count' = b
    /\ initial_remaining' = b
    /\ gpc' = "encoder"
    /\ UNCHANGED <<language_name, kind, search_results, count_result, max_token_count,
                   encoding_ok, prompts, snippet_position, template, next_result>>
    /\ UNCHANGED sumVars

\* Counting succeeded and the subtraction does not overflow.
Budget ==
    /\ gpc = "count"
    /\ count_result.ok
    /\ count_result.count <= max_token_count
    /\ SetBudget(RemainingAfterReserve(IntermediateTokenCount(max_token_count, count_result.count)))

\* Counting succeeded with current_token_count > max_token_count, in a build
\* without overflow checks: the subtraction wraps.
BudgetWrap ==
    /\ gpc = "count"
    /\ count_result.ok
    /\ count_result.count > max_token_count
    /\ SetBudget(RemainingAfterReserve(IntermediateTokenCount(max_token_count, count_result.count)))

\* The same, in a build with overflow checks: the subtraction panics.
BudgetPanic ==
    /\ gpc = "count"
    /\ count_result.ok
    /\ count_result.count > max_token_count
    /\ gpc' = "panicked"
    /\ UNCHANGED <<language_name, kind, search_results, count_result, max_token_count,
                   encoding_ok, prompts, snippet_position, remaining_token_count,
                   template, next_result, initial_remaining>>
    /\ UNCHANGED sumVars

\* Counting failed.
BudgetCountFailed ==
    /\ gpc = "count"
    /\ ~count_result.ok
    /\ SetBudget(RemainingOnCountFailure)

\* if let Ok(encoding) = get_bpe_from_model(model)
Encoder ==
    /\ gpc = "encoder"
    /\ gpc' = IF encoding_ok THEN "loop" ELSE "join"
    /\ UNCHANGED <<language_name, kind, search_results, count_result, max_token_count,
                   encoding_ok, prompts, snippet_position, remaining_token_count,
                   template, next_result, initial_remaining>>
    /\ UNCHANGED sumVars

\* A snippet that fits the budget and the cap is inserted.
Accept ==
    /\ gpc = "loop"
    /\ next_result <= Len(search_results)
    /\ FitsBudget(CurrentTokenCount, remaining_token_count)
    /\ UnderSnippetCap(CurrentTokenCount)
    /\ prompts' = VecInsert(prompts, snippet_position, Snippet(next_result, template))
    /\ snippet_position' = snippet_position + 1
    /\ remaining_token_count' = Decrement(remaining_token_count, CurrentTokenCount)
    /\ template' = FALSE
    /\ next_result' = next_result + 1
    /\ UNCHANGED <<language_name, kind, search_results, count_result, max_token_count,
                   encoding_ok, gpc, initial_remaining>>
    /\ UNCHANGED sumVars

\* A snippet that fits the budget but not the cap is passed over.
Drop ==
    /\ gpc = "loop"
    /\ next_result <= Len(search_results)
    /\ FitsBudget(CurrentTokenCount, remaining_token_count)
    /\ ~UnderSnippetCap(CurrentTokenCount)
    /\ next_result' = next_result + 1
    /\ UNCHANGED <<language_name, kind, search_results, count_result, max_token_count,
                   encoding_ok, gpc, prompts, snippet_position, remaining_token_count,
                   template, initial_remaining>>
    /\ UNCHANGED sumVars

\* `continue` in place of `break`: the unfitting snippet is passed over.
StopContinues ==
    /\ gpc = "loop"
    /\ next_result <= Len(search_results)
    /\ ~FitsBudget(CurrentTokenCount, remaining_token_count)
    /\ next_result' = next_result + 1
    /\ UNCHANGED <<language_name, kind, search_results, count_result, max_token_count,
                   encoding_ok, gpc, prompts, snippet_position, remaining_token_count,
                   template, initial_remaining>>
    /\ UNCHANGED sumVars

\* A snippet that does not fit the budget: break.
Stop ==
    /\ gpc = "loop"
    /\ next_result <= Len(search_results)
    /\ ~FitsBudget(CurrentTokenCount, remaining_token_count)
    /\ gpc' = "join"
    /\ UNCHANGED <<language_name, kind, search_results, count_result, max_token_count,
                   encoding_ok, prompts, snippet_position, remaining_token_count,
                   template, next_result, initial_remaining>>
    /\ UNCHANGED sumVars

\* search_results is exhausted.
Exhausted ==
    /\ gpc = "loop"
    /\ next_result > Len(search_results)
    /\ gpc' = "join"
    /\ UNCHANGED <<language_name, kind, search_results, count_result, max_token_count,
                   encoding_ok, prompts, snippet_position, remaining_token_count,
                   template, next_result, initial_remaining>>
    /\ UNCHANGED sumVars

\* prompts.join("\n") is returned.
Join ==
    /\ gpc = "join"
    /\ gpc' = "returned"
    /\ UNCHANGED <<language_name, kind, search_results, count_result, max_token_count,
                   encoding_ok, prompts, snippet_position, remaining_token_count,
                   template, next_result, initial_remaining>>
    /\ UNCHANGED sumVars

NextPrompt ==
    \/ Assemble
    \/ Budget
    \/ BudgetWrap
    \/ BudgetPanic
    \/ BudgetCountFailed
    \/ Encoder
    \/ Accept
    \/ Drop
    \/ Stop
    \/ Exhausted
    \/ Join

SpecPrompt == InitPrompt /\ [][NextPrompt]_vars

\* ==== properties of summarize ====
Count(seq, x) == Cardinality({i \in DOMAIN seq : seq[i] = x})

\* sub occurs in seq as a contiguous run.
Occurs(sub, seq) ==
    \E i \in 0..(Len(seq) - Len(sub)) : \A k \in 1..Len(sub) : seq[i + k] = sub[k]

IsDocByte(x) == x >= 0

\* The outline without the marker strings.
DocBytes(seq) == SelectSeq(seq, IsDocByte)

\* Half-open ranges with a byte in common.
Intersects(a, b) == a.start < b.end /\ b.start < a.end

\* A's collapse range surrounds B's, the test of the inner loop.
Surrounds(a, b) ==
    a.collapse.start <= b.collapse.start /\ a.collapse.end >= b.collapse.end

\* Any two collapse ranges are nested or share no byte, as the nodes of one
\* syntax tree are.
Laminar(ms) ==
    \A i, j \in DOMAIN ms :
        \/ Surrounds(ms[i], ms[j])
        \/ Surrounds(ms[j], ms[i])
        \/ ~Intersects(ms[i].collapse, ms[j].collapse)

RemoveAt(q, j) == [i \in 1..(Len(q) - 1) |-> IF i < j THEN q[i] ELSE q[i + 1]]

\* The marked selection, as it must appear for a non-empty selection.
MarkedSelection == <<START_OPEN>> \o TextForRange(selected_range) \o <<END_MARK>>

SelectionShown ==
    /\ Count(summary, START_OPEN) = 1
    /\ Occurs(MarkedSelection, summary)

SelectionPreservedWhenLaminar ==
    (pc = "done" /\ selected_range.start < selected_range.end /\ Laminar(candidates))
        => SelectionShown

\* C2: every candidate whose collapse range shares a byte with the selection
\* has the whole verbatim text of its collapse range in the returned outline.
\* Stated for the collections of pairwise nested-or-disjoint ranges, which the
\* claim covers and which hold its own example (a selection that starts
\* before an earlier candidate and ends inside this one).
C2_SelectionOverridesCollapse ==
    (pc = "done" /\ Laminar(candidates)) =>
        \A i \in DOMAIN candidates :
            Intersects(selected_range, candidates[i].collapse)
                => Occurs(TextForRange(candidates[i].collapse), DocBytes(summary))

\* No two candidates have the same collapse range with different keep ranges.
KeepDeterminedByCollapse ==
    \A i, j \in DOMAIN candidates :
        candidates[i].collapse = candidates[j].collapse => candidates[i].keep = candidates[j].keep

\* Removing candidate j, which candidate i surrounds, leaves the outline as it is.
RemovalKeepsOutline ==
    \A i, j \in DOMAIN candidates :
        (i # j /\ Surrounds(candidates[i], candidates[j]))
            => \A q \in SortUnstable(RemoveAt(candidates, j)) :
                   SummarizeSorted(q, selected_range, len) = summary

CursorShown ==
    /\ Count(summary, START_OPEN) = 1
    /\ Count(summary, CURSOR_CLOSE) = 1
    /\ Count(summary, END_MARK) = 0
    /\ \E i \in DOMAIN summary :
          /\ summary[i] = START_OPEN
          /\ i < Len(summary)
          /\ summary[i + 1] = CURSOR_CLOSE
          /\ \A k \in DOMAIN summary :
                IsDocByte(summary[k]) =>
                    IF k < i THEN summary[k] < selected_range.start
                             ELSE summary[k] >= selected_range.start

CursorMarkerWhenLaminar ==
    (pc = "done" /\ selected_range.start = selected_range.end /\ Laminar(candidates))
        => CursorShown

SlicesInOrder ==
    /\ \A i \in DOMAIN slices : slices[i].start <= slices[i].end /\ slices[i].end <= len
    /\ \A i \in 1..(Len(slices) - 1) : slices[i].end <= slices[i + 1].start

\* C10: the write cursor `offset` never decreases and never exceeds the
\* document length, every verbatim slice the scan takes has start <= end, and
\* the slices follow each other in document order without sharing a byte.
C10_OffsetMonotone ==
    /\ [](offset <= len /\ SlicesInOrder)
    /\ [][offset' >= offset]_vars

\* A finished run that collapsed one candidate, skipped another as already
\* summarized, and took the tail slice.
C10_Witness ==
    /\ pc = "done"
    /\ Len(candidates) >= 2
    /\ offset > 0
    /\ Len(slices) >= 3
    /\ \E i \in DOMAIN slices : slices[i].start < slices[i].end

\* ==== properties of generate_content_prompt ====
IsSnippet(p) == p.part = "snippet"

\* Positions of the snippet parts in prompts, and the fragments accepted.
SnippetPositions == {i \in DOMAIN prompts : IsSnippet(prompts[i])}
AcceptedParts == SelectSeq(prompts, IsSnippet)
Accepted == {prompts[i].frag : i \in SnippetPositions}

\* What an accepted snippet cost when it was examined.
PartCost(p) == TokenCount(search_results[p.frag], p.header)

RECURSIVE SumCost(_)
SumCost(ps) == IF ps = <<>> THEN 0 ELSE PartCost(Head(ps)) + SumCost(Tail(ps))

\* The accepted snippets among fragments 1..(i-1), in prompt order.
AcceptedBefore(i) == SelectSeq(prompts, LAMBDA p : IsSnippet(p) /\ p.frag < i)

\* Budget left, and cost of fragment i, at the moment fragment i was examined.
RemainingAt(i) == initial_remaining - SumCost(AcceptedBefore(i))
CostAt(i) == TokenCount(search_results[i], AcceptedBefore(i) = <<>>)

InSnippetPhase == gpc \in {"loop", "join", "returned"}

\* C3: in the returned list of parts the preamble comes first and the accepted
\* snippets form one block, in input order, right after it and before the
\* file header and the document body.
C3_SnippetsAfterPreamble ==
    gpc = "returned" =>
        /\ prompts[1] = Part("preamble")
        /\ SnippetPositions = 2..(1 + Cardinality(SnippetPositions))
        /\ \A i, j \in SnippetPositions : i < j => prompts[i].frag < prompts[j].frag
        /\ prompts[2 + Cardinality(SnippetPositions)] = Part("file_header")
        /\ prompts[3 + Cardinality(SnippetPositions)] = Part("content")

Max0(x) == IF x < 0 THEN 0 ELSE x

\* C4: whenever counting succeeds the budget handed to the snippet loop is
\* max(0, max_context - current_cost - 1000), also when current_cost exceeds
\* max_context, and the computation neither aborts nor wraps around.
C4_RemainingBudgetFormula ==
    (count_result.ok /\ gpc \notin {"idle", "assemble", "count"}) =>
        /\ gpc # "panicked"
        /\ initial_remaining
              = Max0(max_token_count - count_result.count - RESERVED_TOKENS_FOR_GENERATION)

\* C5: fragments are examined in input order and the loop stops at the first
\* one whose cost exceeds the budget left at that moment: every fragment
\* before an accepted one fitted the budget when it was examined, nothing at
\* or after the stopping fragment is accepted, and the accepted snippets
\* keep their input order.  Costs [300,250] with budget 400 accept only the
\* first; costs [100,250] with budget 400 accept both.
C5_GreedyStop ==
    InSnippetPhase =>
        /\ \A j \in Accepted : j < next_result /\ \A i \in 1..j : CostAt(i) <= RemainingAt(i)
        /\ \A i, j \in SnippetPositions : i < j => prompts[i].frag < prompts[j].frag
        /\ (gpc \in {"join", "returned"} /\ encoding_ok /\ next_result <= Len(search_results))
              => CostAt(next_result) > RemainingAt(next_result)
        /\ (gpc = "returned" /\ initial_remaining = 400
                /\ search_results = <<300 - TEMPLATE_TOKENS, 250>>) => Accepted = {1}
        /\ (gpc = "returned" /\ initial_remaining = 400
                /\ search_results = <<100 - TEMPLATE_TOKENS, 250>>) => Accepted = {1, 2}

\* The loop stopped at a fragment that is followed by one that would fit.
C5_Witness ==
    /\ gpc = "returned"
    /\ encoding_ok
    /\ Accepted # {}
    /\ next_result < Len(search_results)
    /\ TokenCount(search_results[next_result + 1], template) <= remaining_token_count
    /\ TokenCount(search_results[next_result + 1], template) < MAXIMUM_SNIPPET_TOKEN_COUNT

\* C8: through the snippet loop the remaining budget is the initial budget
\* minus the costs of the snippets accepted so far, is never negative and
\* never increases; a dropped fragment and the stopping fragment leave it
\* unchanged; each fragment is in the prompt once, whole, or not at all.
C8_BudgetMonotone ==
    /\ [](InSnippetPhase =>
            /\ remaining_token_count = initial_remaining - SumCost(AcceptedParts)
            /\ remaining_token_count >= 0
            /\ Len(AcceptedParts) = Cardinality(Accepted))
    /\ [][gpc = "loop" =>
            /\ remaining_token_count' <= remaining_token_count
            /\ (prompts' = prompts => remaining_token_count' = remaining_token_count)]_vars

\* A finished loop that accepted a snippet, passed over one for the cap and
\* was stopped by one.
C8_Witness ==
    /\ gpc = "returned"
    /\ Accepted # {}
    /\ remaining_token_count < initial_remaining
    /\ next_result <= Len(search_results)
    /\ \E i \in 1..(next_result - 1) : i \notin Accepted

\* C9: when counting the tokens of the assembled instruction fails, the
\* function still returns the assembled parts (preamble, file header,
\* document body, instructions) and no snippet, for every fragment list and
\* whether or not the encoder lookup succeeds.
C9_CountFailureNoSnippets ==
    ~count_result.ok =>
        /\ gpc # "panicked"
        /\ SnippetPositions = {}
        /\ gpc = "returned" => prompts = AssembledParts(language_name, kind)

\* Counting failed, the encoder was found, fragments were offered, and the
\* prompt was returned.
C9_Witness ==
    /\ gpc = "returned"
    /\ ~count_result.ok
    /\ encoding_ok
    /\ search_results # <<>>

====
